---- MODULE Spec2Model ----
(***************************************************************************)
(* buildstockbatch: the commercial Sobol sampler (sample.py) and the       *)
(* Peregrine job partition / resume engine (peregrine.py).                 *)
(*                                                                         *)
(* Seven specifications share this module:                                 *)
(*   SpecOrder   CommercialSobolSampler._com_order_tsvs on every bounded   *)
(*               dependency mapping                                        *)
(*   SpecOrderFair  the same, the method executing to its end              *)
(*   SpecSample  run_sampling and its _com_execute_sample workers          *)
(*   SpecSampleFair  run_sampling on one table, the workers being          *)
(*               scheduled                                                 *)
(*   SpecBatch   PeregrineBatch.run_batch on every bounded workload        *)
(*   SpecResume  run_batch, the array tasks' logs and                      *)
(*               pick_up_where_left_off                                    *)
(*   SpecBuilding  run_job_batch and run_building over the runs and        *)
(*               restarts of one array task                                *)
(* Each leaves the variables of the other parts unchanged.                 *)
(***************************************************************************)
EXTENDS Integers, Sequences, FiniteSets

VARIABLES
    \* ---- sample.py: _com_order_tsvs ----
    tsv_keys,          \* tsv_hash.keys() in the dict's enumeration order
    tsv_hash,          \* attribute -> table [cols, rows]
    dependency_hash,   \* attribute -> list of dependency names
    attr_order,        \* the order under construction / returned
    max_iterations,    \* the pass budget of the while loop
    order_pc,          \* "idle" | "start" | "loop" | "returned" | "raised"
    \* ---- sample.py: run_sampling and its _com_execute_sample workers ----
    run_pc,            \* position of run_sampling
    sample_matrix,     \* attribute position -> sample index -> coordinate
    csv,               \* buildstock.csv: [exists, lines]
    lock,              \* the Manager lock is held
    task_pc,           \* sample index -> position of its _com_execute_sample
    csv_row,           \* sample index -> the row its worker built
    fd_buffer,         \* sample index -> what its worker wrote to its open file
    \* ---- peregrine.py: run_batch ----
    cfg,               \* [n_datapoints, n_upgrades, n_jobs]
    batch_pc,          \* position of run_batch
    n_sims_per_job,    \* run_batch's local
    all_sims,          \* the shuffled workload
    sims_pos,          \* how many units all_sims_iter has yielded
    job_i,             \* the loop counter i of itertools.count(1)
    job_json,          \* output_dir: job number -> persisted descriptor
    jobid,             \* run_batch's local: id returned by _queue_jobs
    \* ---- the external scheduler (qsub) ----
    queued,            \* the submissions the scheduler accepted, in order
    next_jobid,        \* the id the scheduler gives its next submission
    \* ---- peregrine.py: scheduler logs and pick_up_where_left_off ----
    job_out,           \* output_dir: task number -> job.out-<n> contents
    job_out_bak,       \* output_dir: task number -> job.out-<n>.bak contents
    task_runs,         \* how many array task executions have written a log
    pickup_pc,         \* position of pick_up_where_left_off
    listing,           \* the entries of os.listdir the loop has not visited yet
    listed_out,        \* history: the job.out-<n> files as they were when listed
    jobs_to_restart,   \* pick_up_where_left_off's local
    pickup_n_sims,     \* pick_up_where_left_off's local n_sims_per_job
    pickup_jobid,      \* pick_up_where_left_off's local jobid
    pickup_runs,       \* executions of pick_up_where_left_off started so far
    quiet,             \* history: a scan has run and no log was written since
    rescan,            \* history: the last scan ran over a directory that
                       \* nothing had changed since the scan before it
    \* ---- peregrine.py: run_job_batch and run_building ----
    job_batch,         \* args['batch'] of the descriptor the task runs
    job_run,           \* how many times the array task has been started
    sim_dirs,          \* output_dir/results: sim_id -> [exists, marker, made_by]
    bldg_pc,           \* position in job_batch -> position of its run_building
    found_dir,         \* history: the sim_dir as line 295 found it in this run
    n_executed         \* history: position in job_batch -> simulations executed

orderVars == <<tsv_keys, tsv_hash, dependency_hash, attr_order, max_iterations, order_pc>>
sampleVars == <<run_pc, sample_matrix, csv, lock, task_pc, csv_row, fd_buffer>>
batchVars == <<cfg, batch_pc, n_sims_per_job, all_sims, sims_pos, job_i, job_json, jobid>>
schedVars == <<queued, next_jobid>>
logVars == <<job_out, job_out_bak, task_runs>>
pickupVars == <<pickup_pc, listing, listed_out, jobs_to_restart, pickup_n_sims, pickup_jobid, pickup_runs,
                quiet, rescan>>
resumeVars == <<logVars, pickupVars>>
buildingVars == <<job_batch, job_run, sim_dirs, bldg_pc, found_dir, n_executed>>
vars == <<orderVars, sampleVars, batchVars, schedVars, resumeVars, buildingVars>>

(***************************************************************************)
(* Generic helpers on sequences.                                           *)
(***************************************************************************)
Range(s) == {s[k] : k \in 1..Len(s)}

InSeq(x, s) == \E k \in 1..Len(s) : s[k] = x

IndexOf(x, s) == CHOOSE k \in 1..Len(s) : s[k] = x

NoDup(s) == \A j, k \in 1..Len(s) : j # k => s[j] # s[k]

\* every duplicate-free sequence over S of length at most n
NoDupSeqs(S, n) == UNION {{s \in [1..k -> S] : NoDup(s)} : k \in 0..n}

Min(a, b) == IF a < b THEN a ELSE b

Max(a, b) == IF a > b THEN a ELSE b

(***************************************************************************)
(* sample.py: tables.  A table (a pandas DataFrame read from a .tsv) is    *)
(* [cols, rows]: cols is the list of column headers, a header being        *)
(* [kind, name] for the text "Dependency=<name>" or "Option=<name>"; rows  *)
(* is the list of rows, each a list of cell values aligned with cols.      *)
(***************************************************************************)
AttrNames == {"A", "B", "C"}

DepCol(name) == [kind |-> "Dependency", name |-> name]

OptCol(name) == [kind |-> "Option", name |-> name]

\* [item.replace('Dependency=', '') for item in list(df) if 'Dependency=' in item]
DependencyNames(tsv_df) ==
    LET dcols == SelectSeq(tsv_df.cols, LAMBDA c : c.kind = "Dependency")
    IN [k \in 1..Len(dcols) |-> dcols[k].name]

\* max_iterations = 5
MaxIterations == 5

(***************************************************************************)
(* _com_order_tsvs, lines 235-243: build dependency_hash, then seed        *)
(* attr_order.  The seeding loop appends attr when dependency_hash[attr]   *)
(* is truthy, i.e. when the attribute HAS dependencies.                    *)
(***************************************************************************)
SeedOrder(keys, dh) == SelectSeq(keys, LAMBDA attr : dh[attr] # <<>>)

\* one execution of the for loop of lines 245-253 over the keys
RECURSIVE ScanPass(_, _, _)
ScanPass(keys, dh, order) ==
    IF keys = <<>> THEN order
    ELSE LET attr == Head(keys)
             dependencies_met == \A k \in 1..Len(dh[attr]) : InSeq(dh[attr][k], order)
         IN IF InSeq(attr, order) THEN ScanPass(Tail(keys), dh, order)
            ELSE IF dependencies_met THEN ScanPass(Tail(keys), dh, Append(order, attr))
            ELSE ScanPass(Tail(keys), dh, order)

OrderSeed ==
    /\ order_pc = "start"
    /\ LET dh == [attr \in Range(tsv_keys) |-> DependencyNames(tsv_hash[attr])]
       IN /\ dependency_hash' = dh
          /\ attr_order' = SeedOrder(tsv_keys, dh)
    /\ max_iterations' = MaxIterations
    /\ order_pc' = "loop"
    /\ UNCHANGED <<tsv_keys, tsv_hash>>

\* mutant of OrderPass: the loop ends only when the order respects every
\* dependency, and the budget is counted down but never tested
OrderPassUntilOrdered ==
    /\ order_pc = "loop"
    /\ LET order == ScanPass(tsv_keys, dependency_hash, attr_order)
           ordered == \A attr \in Range(tsv_keys) : \A k \in 1..Len(dependency_hash[attr]) :
                          /\ InSeq(attr, order)
                          /\ InSeq(dependency_hash[attr][k], order)
                          /\ IndexOf(dependency_hash[attr][k], order) < IndexOf(attr, order)
       IN /\ attr_order' = order
          /\ IF Len(tsv_keys) = Len(order) /\ ordered
                THEN order_pc' = "returned" /\ UNCHANGED max_iterations
                ELSE order_pc' = "loop" /\ max_iterations' = max_iterations - 1
    /\ UNCHANGED <<tsv_keys, tsv_hash, dependency_hash>>

\* one iteration of the while loop, lines 244-260
OrderPass ==
    /\ order_pc = "loop"
    /\ LET order == ScanPass(tsv_keys, dependency_hash, attr_order)
       IN /\ attr_order' = order
          /\ IF Len(tsv_keys) = Len(order)
                THEN order_pc' = "returned" /\ UNCHANGED max_iterations
             ELSE IF max_iterations > 0
                THEN order_pc' = "loop" /\ max_iterations' = max_iterations - 1
             ELSE order_pc' = "raised" /\ UNCHANGED max_iterations
    /\ UNCHANGED <<tsv_keys, tsv_hash, dependency_hash>>

(***************************************************************************)
(* SpecOrder: _com_order_tsvs applied to every mapping of at most          *)
(* MaxAttrs attributes with at most MaxDeps dependency columns each.  A    *)
(* dependency may name any attribute name, a key of the mapping or not,    *)
(* the attribute itself included.                                          *)
(***************************************************************************)
MaxAttrs == 3

MaxDeps == 2

HeaderOnlyTable(deps) ==
    [cols |-> [k \in 1..Len(deps) |-> DepCol(deps[k])] \o <<OptCol("x")>>, rows |-> <<>>]

BatchIdle ==
    /\ cfg = [n_datapoints |-> 0, n_upgrades |-> 0, n_jobs |-> 1]
    /\ batch_pc = "idle"
    /\ n_sims_per_job = 0
    /\ all_sims = <<>>
    /\ sims_pos = 0
    /\ job_i = 0
    /\ job_json = <<>>
    /\ jobid = 0
    /\ queued = <<>>
    /\ next_jobid = 1

ResumeIdle ==
    /\ job_out = <<>>
    /\ job_out_bak = <<>>
    /\ task_runs = 0
    /\ pickup_pc = "idle"
    /\ listing = {}
    /\ listed_out = <<>>
    /\ jobs_to_restart = <<>>
    /\ pickup_n_sims = 0
    /\ pickup_jobid = 0
    /\ pickup_runs = 0
    /\ quiet = FALSE
    /\ rescan = FALSE

BuildingIdle ==
    /\ job_batch = <<>>
    /\ job_run = 0
    /\ sim_dirs = <<>>
    /\ bldg_pc = <<>>
    /\ found_dir = <<>>
    /\ n_executed = <<>>

SampleIdle ==
    /\ run_pc = "idle"
    /\ sample_matrix = <<>>
    /\ csv = [exists |-> FALSE, lines |-> <<>>]
    /\ lock = FALSE
    /\ task_pc = <<>>
    /\ csv_row = <<>>
    /\ fd_buffer = <<>>

OrderIdle ==
    /\ tsv_keys = <<>>
    /\ tsv_hash = <<>>
    /\ dependency_hash = <<>>
    /\ attr_order = <<>>
    /\ max_iterations = 0
    /\ order_pc = "idle"

InitOrder ==
    /\ tsv_keys \in NoDupSeqs(AttrNames, Min(MaxAttrs, Cardinality(AttrNames)))
    /\ \E deps \in [Range(tsv_keys) -> NoDupSeqs(AttrNames, MaxDeps)] :
          tsv_hash = [attr \in Range(tsv_keys) |-> HeaderOnlyTable(deps[attr])]
    /\ dependency_hash = <<>>
    /\ attr_order = <<>>
    /\ max_iterations = 0
    /\ order_pc = "start"
    /\ SampleIdle
    /\ BatchIdle
    /\ ResumeIdle
    /\ BuildingIdle

NextOrder ==
    \/ OrderSeed /\ UNCHANGED <<sampleVars, batchVars, schedVars, resumeVars, buildingVars>>
    \/ OrderPass /\ UNCHANGED <<sampleVars, batchVars, schedVars, resumeVars, buildingVars>>

SpecOrder == InitOrder /\ [][NextOrder]_vars

\* _com_order_tsvs is sequential code: once called it keeps executing
SpecOrderFair == SpecOrder /\ WF_vars(NextOrder)

(***************************************************************************)
(* sample.py: _com_execute_sample.                                         *)
(*                                                                         *)
(* Weights and coordinates are counted in millionths: the weight 0.5 is    *)
(* 500000, the coordinate 1.0 is 1000000 and 0.999999 is 999999.           *)
(***************************************************************************)
\* the 1.0 of .replace(1.0, 0.999999)
UnitCoord == 1000000

\* the 0.999999 of .replace(1.0, 0.999999)
ClampedCoord == 999999

\* str(n) for the sample numbers that occur
IntStr(n) == <<"1", "2", "3", "4", "5">>[n]

\* the position of the column 'Dependency=' + dependency in a table
DepColIndex(tsv_lkup, dependency) ==
    CHOOSE k \in 1..Len(tsv_lkup.cols) : tsv_lkup.cols[k] = DepCol(dependency)

\* the elements of s at the positions in keep, in order
RECURSIVE SelectAt(_, _)
SelectAt(s, keep) ==
    IF s = <<>> THEN <<>>
    ELSE SelectAt(SubSeq(s, 1, Len(s) - 1), keep)
            \o (IF Len(s) \in keep THEN <<s[Len(s)]>> ELSE <<>>)

\* tsv_lkup.loc[mask]: the rows whose position is in keep
SelectRows(tsv_lkup, keep) == [tsv_lkup EXCEPT !.rows = SelectAt(@, keep)]

\* tsv_lkup.drop(column, axis=1)
DropColumn(tsv_lkup, c) ==
    LET Without(row) == SubSeq(row, 1, c - 1) \o SubSeq(row, c + 1, Len(row))
    IN [cols |-> Without(tsv_lkup.cols),
        rows |-> [k \in 1..Len(tsv_lkup.rows) |-> Without(tsv_lkup.rows[k])]]

\* lines 284-286 for one dependency.  ctx is sample_dependency_hash: an
\* attribute already sampled holds its chosen option, any other still holds
\* the list of names deepcopy took from dependency_hash.  pandas compares a
\* column with a string cell by cell, and with a list element by element
\* when the lengths agree; it raises ValueError when they do not.
FilterDependency(tsv_lkup, dependency, ctx) ==
    IF dependency \notin DOMAIN ctx
       THEN [error |-> "KeyError", lkup |-> tsv_lkup]
    ELSE LET c == DepColIndex(tsv_lkup, dependency)
             held == ctx[dependency]
             n_rows == Len(tsv_lkup.rows)
         IN IF held.chosen
               THEN [error |-> "",
                     lkup |-> DropColumn(SelectRows(tsv_lkup,
                                  {k \in 1..n_rows : tsv_lkup.rows[k][c] = held.option}), c)]
            ELSE IF Len(held.names) # n_rows
               THEN [error |-> "ValueError", lkup |-> tsv_lkup]
            ELSE [error |-> "",
                  lkup |-> DropColumn(SelectRows(tsv_lkup,
                               {k \in 1..n_rows : tsv_lkup.rows[k][c] = held.names[k]}), c)]

\* the loop of lines 283-286 over the dependencies of one attribute
RECURSIVE FilterDependencies(_, _, _)
FilterDependencies(tsv_lkup, dependencies, ctx) ==
    IF dependencies = <<>> THEN [error |-> "", lkup |-> tsv_lkup]
    ELSE LET first == FilterDependency(tsv_lkup, Head(dependencies), ctx)
         IN IF first.error # "" THEN first
            ELSE FilterDependencies(first.lkup, Tail(dependencies), ctx)

\* tsv_lkup.values.cumsum() of the one remaining row
RECURSIVE CumSum(_)
CumSum(row) ==
    IF row = <<>> THEN <<>>
    ELSE LET before == CumSum(SubSeq(row, 1, Len(row) - 1))
         IN Append(before, (IF before = <<>> THEN 0 ELSE before[Len(before)]) + row[Len(row)])

\* lines 293-295: the options whose cumulative weight exceeds the coordinate
CompressOptions(tsv_lkup, tsv_dist_val) ==
    LET tsv_lkup_cdf == CumSum(tsv_lkup.rows[1])
        opts == SelectSeq(tsv_lkup.cols, LAMBDA c : c.kind = "Option")
        option_values == [k \in 1..Len(opts) |-> opts[k].name]
        kept == {k \in 1..Min(Len(option_values), Len(tsv_lkup_cdf)) :
                    tsv_lkup_cdf[k] > tsv_dist_val}
    IN SelectAt(option_values, kept)

\* the loop of lines 279-297 from position attr_index on; st is
\* [ctx, result_vector]
RECURSIVE SampleFrom(_, _, _, _, _)
SampleFrom(tables, order, sample_vector, attr_index, st) ==
    IF attr_index > Len(order)
       THEN [outcome |-> "row", error |-> "", result_vector |-> st.result_vector]
    ELSE LET attr == order[attr_index]
             tsv_dist_val == sample_vector[attr_index]
             f == FilterDependencies(tables[attr], st.ctx[attr].names, st.ctx)
         IN IF f.error # ""
               THEN [outcome |-> "raised", error |-> f.error, result_vector |-> <<>>]
            ELSE IF Len(f.lkup.rows) = 0
               THEN [outcome |-> "rejected", error |-> "", result_vector |-> <<>>]
            ELSE IF Len(f.lkup.rows) # 1
               THEN [outcome |-> "raised", error |-> "RuntimeError", result_vector |-> <<>>]
            ELSE LET compressed == CompressOptions(f.lkup, tsv_dist_val)
                 IN IF compressed = <<>>
                       THEN [outcome |-> "raised", error |-> "IndexError",
                             result_vector |-> <<>>]
                    ELSE LET attr_result == compressed[1]
                         IN SampleFrom(tables, order, sample_vector, attr_index + 1,
                                [ctx |-> [st.ctx EXCEPT ![attr] =
                                             [chosen |-> TRUE, option |-> attr_result,
                                              names |-> <<>>]],
                                 result_vector |-> Append(st.result_vector, attr_result)])

\* lines 276-297 for one sample index
ExecuteSample(tables, dh, order, matrix, sample_index) ==
    LET sample_vector == [d \in 1..Len(order) |-> matrix[d][sample_index]]
        sample_dependency_hash ==
            [attr \in DOMAIN dh |-> [chosen |-> FALSE, option |-> "", names |-> dh[attr]]]
    IN SampleFrom(tables, order, sample_vector, 1,
                  [ctx |-> sample_dependency_hash, result_vector |-> <<>>])

\* A line of buildstock.csv is a string, kept as the sequence of its pieces:
\* the values written, the "," after each and the closing "\n".
\* the loops of lines 199-200 and 299-300: str(item) + ',' for every item
RECURSIVE CommaTerminated(_)
CommaTerminated(items) ==
    IF items = <<>> THEN <<>>
    ELSE <<Head(items), ",">> \o CommaTerminated(Tail(items))

\* text[0:-1]: the text without its last character, here the last ","
DropLast(text) == SubSeq(text, 1, Len(text) - 1)

\* mutant of CsvRow: the row carries sample_index, not sample_index + 1
CsvRowZeroBased(sample_index, result_vector) ==
    DropLast(<<IF sample_index = 0 THEN "0" ELSE IntStr(sample_index), ",">>
                 \o CommaTerminated(result_vector)) \o <<"\n">>

\* lines 298-301
CsvRow(sample_index, result_vector) ==
    DropLast(<<IntStr(sample_index + 1), ",">> \o CommaTerminated(result_vector)) \o <<"\n">>

\* lines 198-201
CsvHeader(order) == DropLast(<<"Building", ",">> \o CommaTerminated(order)) \o <<"\n">>

(***************************************************************************)
(* sample.py: run_sampling and the workers of Parallel.                    *)
(***************************************************************************)
NSamples == 2

Coordinates == {0, 500000, UnitCoord}

\* i4_sobol_generate(n_dims, n_samples, 0): a point set of the closed unit
\* cube, one row per dimension and one column per sample
SobolPoints(n_dims, n_samples) == [1..n_dims -> [0..(n_samples - 1) -> Coordinates]]

\* mutant of ReplaceUnit: the point set is used as generated
KeepUnit(matrix) == matrix

\* .replace(1.0, 0.999999)
ReplaceUnit(matrix) ==
    [d \in DOMAIN matrix |->
        [k \in DOMAIN matrix[d] |-> IF matrix[d][k] = UnitCoord THEN ClampedCoord
                                    ELSE matrix[d][k]]]

\* mutant of ExecuteSobolSampling: the two arguments are exchanged
ExecuteSobolSamplingSwapped(n_dims, n_samples) ==
    {ReplaceUnit(m) : m \in [1..n_samples -> [0..(n_dims - 1) -> Coordinates]]}

\* _com_execute_sobol_sampling, line 225
ExecuteSobolSampling(n_dims, n_samples) ==
    {ReplaceUnit(m) : m \in SobolPoints(n_dims, n_samples)}

\* lines 196-212 up to the start of the workers; when _com_order_tsvs
\* raised, run_sampling ends with that error at line 195
SamplingHeader ==
    /\ run_pc = "order"
    /\ order_pc \in {"returned", "raised"}
    /\ IF order_pc = "raised"
          THEN /\ run_pc' = "raised"
               /\ UNCHANGED <<sample_matrix, csv, task_pc, csv_row, fd_buffer>>
          ELSE /\ sample_matrix' \in ExecuteSobolSampling(Len(attr_order), NSamples)
               /\ csv' = [exists |-> TRUE, lines |-> <<CsvHeader(attr_order)>>]
               /\ task_pc' = [k \in 0..(NSamples - 1) |-> "pending"]
               /\ csv_row' = [k \in 0..(NSamples - 1) |-> <<>>]
               /\ fd_buffer' = [k \in 0..(NSamples - 1) |-> <<>>]
               /\ run_pc' = "parallel"
    /\ UNCHANGED lock

\* mutant of WorkerResolve: the row is numbered by the lines the table
\* holds when the worker runs, not by sample_index
WorkerResolveNumberedByTable(sample_index) ==
    /\ run_pc = "parallel"
    /\ task_pc[sample_index] = "pending"
    /\ LET r == ExecuteSample(tsv_hash, dependency_hash, attr_order, sample_matrix,
                              sample_index)
       IN /\ task_pc' = [task_pc EXCEPT ![sample_index] =
                            IF r.outcome = "row" THEN "resolved" ELSE r.outcome]
          /\ csv_row' = [csv_row EXCEPT ![sample_index] =
                            IF r.outcome = "row"
                               THEN CsvRow(Len(csv.lines) - 1, r.result_vector)
                            ELSE <<>>]
    /\ UNCHANGED <<run_pc, sample_matrix, csv, lock, fd_buffer>>

\* lines 276-301 in the worker given sample_index
WorkerResolve(sample_index) ==
    /\ run_pc = "parallel"
    /\ task_pc[sample_index] = "pending"
    /\ LET r == ExecuteSample(tsv_hash, dependency_hash, attr_order, sample_matrix,
                              sample_index)
       IN /\ task_pc' = [task_pc EXCEPT ![sample_index] =
                            IF r.outcome = "row" THEN "resolved" ELSE r.outcome]
          /\ csv_row' = [csv_row EXCEPT ![sample_index] =
                            IF r.outcome = "row" THEN CsvRow(sample_index, r.result_vector)
                            ELSE <<>>]
    /\ UNCHANGED <<run_pc, sample_matrix, csv, lock, fd_buffer>>

\* mutant of LockAcquire: the lock is taken without waiting for it
LockAcquireNoWait(sample_index) == lock' = TRUE

\* lock.acquire() blocks while another worker holds the lock
LockAcquire(sample_index) ==
    /\ ~lock
    /\ lock' = TRUE

\* line 302
WorkerAcquire(sample_index) ==
    /\ task_pc[sample_index] = "resolved"
    /\ LockAcquire(sample_index)
    /\ task_pc' = [task_pc EXCEPT ![sample_index] = "acquired"]
    /\ UNCHANGED <<run_pc, sample_matrix, csv, csv_row, fd_buffer>>

\* mutant of WorkerOpen: open(csv_path, 'w'), which empties the file
WorkerOpenTruncating(sample_index) ==
    /\ task_pc[sample_index] = "acquired"
    /\ task_pc' = [task_pc EXCEPT ![sample_index] = "opened"]
    /\ csv' = [csv EXCEPT !.lines = <<>>]
    /\ fd_buffer' = [fd_buffer EXCEPT ![sample_index] = <<>>]
    /\ UNCHANGED <<run_pc, sample_matrix, lock, csv_row>>

\* line 304: open(csv_path, 'a') succeeds or raises OSError
WorkerOpen(sample_index) ==
    /\ task_pc[sample_index] = "acquired"
    /\ \E opened \in BOOLEAN :
          task_pc' = [task_pc EXCEPT ![sample_index] = IF opened THEN "opened" ELSE "failing"]
    /\ fd_buffer' = [fd_buffer EXCEPT ![sample_index] = <<>>]
    /\ UNCHANGED <<run_pc, sample_matrix, csv, lock, csv_row>>

\* line 305: fd.write(csv_row) puts the row in the file object's buffer, or
\* raises OSError and the with block closes the file without the row
WorkerWrite(sample_index) ==
    /\ task_pc[sample_index] = "opened"
    /\ \E written \in BOOLEAN :
          IF written
             THEN /\ fd_buffer' = [fd_buffer EXCEPT ![sample_index] =
                                      Append(@, csv_row[sample_index])]
                  /\ task_pc' = [task_pc EXCEPT ![sample_index] = "written"]
             ELSE /\ fd_buffer' = [fd_buffer EXCEPT ![sample_index] = <<>>]
                  /\ task_pc' = [task_pc EXCEPT ![sample_index] = "failing"]
    /\ UNCHANGED <<run_pc, sample_matrix, csv, lock, csv_row>>

\* the end of the with block of line 304: the file is flushed and closed
WorkerClose(sample_index) ==
    /\ task_pc[sample_index] = "written"
    /\ csv' = [csv EXCEPT !.lines = @ \o fd_buffer[sample_index]]
    /\ fd_buffer' = [fd_buffer EXCEPT ![sample_index] = <<>>]
    /\ task_pc' = [task_pc EXCEPT ![sample_index] = "closed"]
    /\ UNCHANGED <<run_pc, sample_matrix, lock, csv_row>>

\* mutant of WorkerRelease: lock.release() follows the with block without
\* try/finally, so an error of open or write skips it
WorkerReleaseOnSuccess(sample_index) ==
    /\ task_pc[sample_index] \in {"closed", "failing"}
    /\ lock' = IF task_pc[sample_index] = "closed" THEN FALSE ELSE lock
    /\ task_pc' = [task_pc EXCEPT ![sample_index] =
                      IF @ = "closed" THEN "done" ELSE "raised"]
    /\ UNCHANGED <<run_pc, sample_matrix, csv, csv_row, fd_buffer>>

\* lines 306-307: finally: lock.release()
WorkerRelease(sample_index) ==
    /\ task_pc[sample_index] \in {"closed", "failing"}
    /\ lock' = FALSE
    /\ task_pc' = [task_pc EXCEPT ![sample_index] =
                      IF @ = "closed" THEN "done" ELSE "raised"]
    /\ UNCHANGED <<run_pc, sample_matrix, csv, csv_row, fd_buffer>>

\* mutant of SamplingFinish: the errors of the tasks are dropped
SamplingFinishIgnoringErrors ==
    /\ run_pc = "parallel"
    /\ \A k \in DOMAIN task_pc : task_pc[k] \in {"done", "rejected", "raised"}
    /\ run_pc' = "returned"
    /\ UNCHANGED <<sample_matrix, csv, lock, task_pc, csv_row, fd_buffer>>

\* lines 208-213: Parallel returns when every task has ended, and passes
\* on the error of a task that raised
SamplingFinish ==
    /\ run_pc = "parallel"
    /\ LET raised == \E k \in DOMAIN task_pc : task_pc[k] = "raised"
       IN /\ raised \/ \A k \in DOMAIN task_pc : task_pc[k] \in {"done", "rejected"}
          /\ run_pc' = IF raised THEN "raised" ELSE "returned"
    /\ UNCHANGED <<sample_matrix, csv, lock, task_pc, csv_row, fd_buffer>>

(***************************************************************************)
(* SpecSample: run_sampling over a few sets of .tsv tables, in both        *)
(* enumeration orders of os.listdir, with NSamples sample points.          *)
(***************************************************************************)
\* A: no dependency, options x and y with weight 0.5 each
TableA ==
    [cols |-> <<OptCol("x"), OptCol("y")>>, rows |-> << <<500000, 500000>> >>]

\* B: no dependency, options p and q with weights 0.25 and 0.75
TableB ==
    [cols |-> <<OptCol("p"), OptCol("q")>>, rows |-> << <<250000, 750000>> >>]

\* B conditioned on A, one row per value of A
TableBonA ==
    [cols |-> <<DepCol("A"), OptCol("p"), OptCol("q")>>,
     rows |-> << <<"x", 1000000, 0>>, <<"y", 250000, 750000>> >>]

\* A conditioned on B by a single row: with TableBonA a dependency cycle
TableAonB ==
    [cols |-> <<DepCol("B"), OptCol("x"), OptCol("y")>>,
     rows |-> << <<"p", 500000, 500000>> >>]

\* B conditioned on C, which has no table
TableBonC ==
    [cols |-> <<DepCol("C"), OptCol("p"), OptCol("q")>>,
     rows |-> << <<"u", 250000, 750000>> >>]

\* A with the same (empty) dependency context twice
TableATwice ==
    [cols |-> <<OptCol("x"), OptCol("y")>>,
     rows |-> << <<500000, 500000>>, <<1000000, 0>> >>]

\* A with no row at all
TableAEmpty == [cols |-> <<OptCol("x"), OptCol("y")>>, rows |-> <<>>]

\* B conditioned on A with a row for A = x only: the context A = y is absent
TableBonAOnlyX ==
    [cols |-> <<DepCol("A"), OptCol("p"), OptCol("q")>>,
     rows |-> << <<"x", 250000, 750000>> >>]

TableSetIds == 1..8

TableSet(c) ==
    CASE c = 1 -> [A |-> TableA, B |-> TableB]
      [] c = 2 -> [A |-> TableA, B |-> TableBonA]
      [] c = 3 -> [A |-> TableAonB, B |-> TableBonA]
      [] c = 4 -> [A |-> TableA, B |-> TableBonC]
      [] c = 5 -> [A |-> TableATwice, B |-> TableB]
      [] c = 6 -> [A |-> TableAEmpty, B |-> TableB]
      [] c = 7 -> [A |-> TableA]
      [] c = 8 -> [A |-> TableA, B |-> TableBonAOnlyX]

InitSample ==
    /\ \E c \in TableSetIds :
          /\ tsv_hash = TableSet(c)
          /\ tsv_keys \in {s \in NoDupSeqs(DOMAIN TableSet(c), Cardinality(DOMAIN TableSet(c))) :
                              Len(s) = Cardinality(DOMAIN TableSet(c))}
    /\ dependency_hash = <<>>
    /\ attr_order = <<>>
    /\ max_iterations = 0
    /\ order_pc = "start"
    /\ run_pc = "order"
    /\ sample_matrix = <<>>
    /\ csv = [exists |-> FALSE, lines |-> <<>>]
    /\ lock = FALSE
    /\ task_pc = <<>>
    /\ csv_row = <<>>
    /\ fd_buffer = <<>>
    /\ BatchIdle
    /\ ResumeIdle
    /\ BuildingIdle

NextSample ==
    \/ OrderSeed /\ UNCHANGED <<sampleVars, batchVars, schedVars, resumeVars, buildingVars>>
    \/ OrderPass /\ UNCHANGED <<sampleVars, batchVars, schedVars, resumeVars, buildingVars>>
    \/ SamplingHeader /\ UNCHANGED <<orderVars, batchVars, schedVars, resumeVars, buildingVars>>
    \/ \E k \in DOMAIN task_pc :
          WorkerResolve(k) /\ UNCHANGED <<orderVars, batchVars, schedVars, resumeVars, buildingVars>>
    \/ \E k \in DOMAIN task_pc :
          WorkerAcquire(k) /\ UNCHANGED <<orderVars, batchVars, schedVars, resumeVars, buildingVars>>
    \/ \E k \in DOMAIN task_pc :
          WorkerOpen(k) /\ UNCHANGED <<orderVars, batchVars, schedVars, resumeVars, buildingVars>>
    \/ \E k \in DOMAIN task_pc :
          WorkerWrite(k) /\ UNCHANGED <<orderVars, batchVars, schedVars, resumeVars, buildingVars>>
    \/ \E k \in DOMAIN task_pc :
          WorkerClose(k) /\ UNCHANGED <<orderVars, batchVars, schedVars, resumeVars, buildingVars>>
    \/ \E k \in DOMAIN task_pc :
          WorkerRelease(k) /\ UNCHANGED <<orderVars, batchVars, schedVars, resumeVars, buildingVars>>
    \/ SamplingFinish /\ UNCHANGED <<orderVars, batchVars, schedVars, resumeVars, buildingVars>>

SpecSample == InitSample /\ [][NextSample]_vars

\* a step of lines 302-307 by some worker
AppendStep ==
    \E k \in DOMAIN task_pc :
        /\ \/ WorkerAcquire(k)
           \/ WorkerOpen(k)
           \/ WorkerWrite(k)
           \/ WorkerClose(k)
           \/ WorkerRelease(k)
        /\ UNCHANGED <<orderVars, batchVars, schedVars, resumeVars, buildingVars>>

\* run_sampling on the single table A: every worker builds a row and goes
\* on to lines 302-307, which do not read the tables
InitAppend == InitSample /\ tsv_hash = [A |-> TableA]

\* the pool's processes are scheduled: while some worker can take a step of
\* lines 302-307, such a step is taken
SpecSampleFair == InitAppend /\ [][NextSample]_vars /\ WF_vars(AppendStep)

(***************************************************************************)
(* peregrine.py: run_batch.                                                *)
(*                                                                         *)
(* A simulation unit (i, upgrade_idx) is <<i, <<>>>> when upgrade_idx is   *)
(* None and <<i, <<u>>>> for upgrade u.                                    *)
(***************************************************************************)
\* run_batch(self, n_jobs=200, ...)
DefaultNJobs == 200

\* n_sims_per_job = max(n_sims_per_job, 48)
MinSimsPerJob == 48

\* mutant of CeilDiv: n_sims // n_jobs
FloorDiv(a, b) == a \div b

\* math.ceil(a / b) for a >= 0, b >= 1
CeilDiv(a, b) == (a + b - 1) \div b

\* mutant of BaselineSims: range(1, n_datapoints)
BaselineSimsShort(n) == [k \in 1..(n - 1) |-> <<k, <<>>>>]

\* zip(range(1, n_datapoints + 1), itertools.repeat(None))
BaselineSims(n) == [k \in 1..n |-> <<k, <<>>>>]

\* itertools.product(range(1, n_datapoints + 1), range(len(upgrades)))
UpgradeSims(n, u) == [k \in 1..(n * u) |-> <<((k - 1) \div u) + 1, <<(k - 1) % u>>>>]

\* list(itertools.chain(baseline_sims, upgrade_sims))
AllSims(n, u) == BaselineSims(n) \o UpgradeSims(n, u)

MaxFullShuffle == 3

\* the permutations of 1..n
IndexPermutations(n) == {f \in [1..n -> 1..n] : \A j, k \in 1..n : j # k => f[j] # f[k]}

\* the permutations k -> a*(k-1) + r (mod n) of 1..n with a in {1, n-1}
\* and r in {0, n/2}: the identity, the reversal, and both rotated by half
AffinePermutations(n) ==
    {[k \in 1..n |-> ((a * (k - 1) + r) % n) + 1] : a \in {1, n - 1}, r \in {0, n \div 2}}

\* random.shuffle(all_sims): the outcomes drawn here are every permutation
\* of a list of at most MaxFullShuffle units, and four permutations of a
\* longer one
Shuffles(sims) ==
    LET n == Len(sims)
        perms == IF n <= MaxFullShuffle THEN IndexPermutations(n) ELSE AffinePermutations(n)
    IN {[k \in 1..n |-> sims[f[k]]] : f \in perms}

\* list(itertools.islice(all_sims_iter, n_sims_per_job))
Islice(sims, pos, n) == SubSeq(sims, pos + 1, Min(pos + n, Len(sims)))

\* a file written into output_dir under a numbered name
WriteFile(dir, n, contents) ==
    [k \in (DOMAIN dir) \cup {n} |-> IF k = n THEN contents ELSE dir[k]]

\* mutant of RemoveFile: the file is left in place
RemoveFileKept(dir, n) == dir

\* os.remove
RemoveFile(dir, n) == [k \in (DOMAIN dir) \ {n} |-> dir[k]]

\* mutant of RangeSpec: '1-{}'.format(i)
RangeSpecThroughI(last) == [form |-> "range", first |-> 1, last |-> last + 1]

\* '1-{}'.format(i - 1)
RangeSpec(last) == [form |-> "range", first |-> 1, last |-> last]

\* ','.join(map(str, jobs_to_restart))
ListSpec(ids) == [form |-> "list", ids |-> ids]

\* the array task numbers the scheduler derives from a -t argument
ArrayTasks(array_spec) ==
    IF array_spec.form = "range" THEN array_spec.first .. array_spec.last
    ELSE Range(array_spec.ids)

\* lines 201-213: sizing, workload construction, shuffle
BuildWorkload ==
    /\ batch_pc = "start"
    /\ LET n_datapoints == cfg.n_datapoints
           n_sims == n_datapoints * (cfg.n_upgrades + 1)
       IN /\ n_sims_per_job' = Max(CeilDiv(n_sims, cfg.n_jobs), MinSimsPerJob)
          /\ all_sims' \in Shuffles(AllSims(n_datapoints, cfg.n_upgrades))
    /\ sims_pos' = 0
    /\ job_i' = 1
    /\ batch_pc' = "loop"
    /\ UNCHANGED <<cfg, job_json, jobid>>

\* one iteration of the loop of lines 215-225
PersistJob ==
    /\ batch_pc = "loop"
    /\ LET batch == Islice(all_sims, sims_pos, n_sims_per_job)
       IN IF batch = <<>>
             THEN /\ batch_pc' = "queue_jobs"
                  /\ UNCHANGED <<sims_pos, job_i, job_json>>
             ELSE /\ job_json' = WriteFile(job_json, job_i, [job_num |-> job_i, batch |-> batch])
                  /\ sims_pos' = sims_pos + Len(batch)
                  /\ job_i' = job_i + 1
                  /\ batch_pc' = "loop"
    /\ UNCHANGED <<cfg, n_sims_per_job, all_sims, jobid>>

\* _queue_jobs, lines 125-170: qsub accepts the array and prints its id, or
\* exits non-zero and check_returncode raises
QueueJobs(n_sims, array_spec, accepted) ==
    IF accepted
       THEN /\ queued' = Append(queued, [kind |-> "array", id |-> next_jobid,
                                         n_sims_per_job |-> n_sims,
                                         array_spec |-> array_spec, after |-> 0])
            /\ next_jobid' = next_jobid + 1
       ELSE UNCHANGED <<queued, next_jobid>>

\* mutant of QueuePostProcessing: the -W depend option names no job
QueuePostProcessingNoDepend(after_jobid, accepted) ==
    IF accepted
       THEN /\ queued' = Append(queued, [kind |-> "post", id |-> next_jobid,
                                         n_sims_per_job |-> 0,
                                         array_spec |-> [form |-> "list", ids |-> <<>>],
                                         after |-> 0])
            /\ next_jobid' = next_jobid + 1
       ELSE UNCHANGED <<queued, next_jobid>>

\* _queue_post_processing, lines 172-194: subprocess.run without check, so
\* a qsub that exits non-zero goes unnoticed
QueuePostProcessing(after_jobid, accepted) ==
    IF accepted
       THEN /\ queued' = Append(queued, [kind |-> "post", id |-> next_jobid,
                                         n_sims_per_job |-> 0,
                                         array_spec |-> ListSpec(<<>>), after |-> after_jobid])
            /\ next_jobid' = next_jobid + 1
       ELSE UNCHANGED <<queued, next_jobid>>

\* line 227
BatchQueueJobs ==
    /\ batch_pc = "queue_jobs"
    /\ \E accepted \in BOOLEAN :
          /\ QueueJobs(n_sims_per_job, RangeSpec(job_i - 1), accepted)
          /\ IF accepted
                THEN jobid' = next_jobid /\ batch_pc' = "queue_post"
                ELSE UNCHANGED jobid /\ batch_pc' = "raised"
    /\ UNCHANGED <<cfg, n_sims_per_job, all_sims, sims_pos, job_i, job_json>>

\* line 229
BatchQueuePost ==
    /\ batch_pc = "queue_post"
    /\ \E accepted \in BOOLEAN : QueuePostProcessing(jobid, accepted)
    /\ batch_pc' = "done"
    /\ UNCHANGED <<cfg, n_sims_per_job, all_sims, sims_pos, job_i, job_json, jobid>>

\* the process running run_batch is killed: its locals are lost, the
\* files it closed stay
BatchCrash ==
    /\ batch_pc \in {"start", "loop", "queue_jobs", "queue_post"}
    /\ batch_pc' = "crashed"
    /\ UNCHANGED <<cfg, n_sims_per_job, all_sims, sims_pos, job_i, job_json, jobid, schedVars>>

(***************************************************************************)
(* SpecBatch: run_batch for every n_datapoints up to MaxDatapoints, up to  *)
(* MaxUpgrades upgrades and a requested job count of 1..MaxJobs or the     *)
(* default.                                                                *)
(***************************************************************************)
MaxDatapoints == 100

MaxUpgrades == 1

MaxJobs == 2

MaxFirstJobId == 2

BatchStart ==
    /\ batch_pc = "start"
    /\ n_sims_per_job = 0
    /\ all_sims = <<>>
    /\ sims_pos = 0
    /\ job_i = 0
    /\ job_json = <<>>
    /\ jobid = 0
    /\ queued = <<>>

InitBatch ==
    /\ cfg \in [n_datapoints : 0..MaxDatapoints, n_upgrades : 0..MaxUpgrades,
                n_jobs : (1..MaxJobs) \cup {DefaultNJobs}]
    /\ BatchStart
    /\ next_jobid \in 1..MaxFirstJobId
    /\ OrderIdle
    /\ SampleIdle
    /\ ResumeIdle
    /\ BuildingIdle

NextBatch ==
    \/ BuildWorkload /\ UNCHANGED <<orderVars, sampleVars, schedVars, resumeVars, buildingVars>>
    \/ PersistJob /\ UNCHANGED <<orderVars, sampleVars, schedVars, resumeVars, buildingVars>>
    \/ BatchQueueJobs /\ UNCHANGED <<orderVars, sampleVars, resumeVars, buildingVars>>
    \/ BatchQueuePost /\ UNCHANGED <<orderVars, sampleVars, resumeVars, buildingVars>>
    \/ BatchCrash /\ UNCHANGED <<orderVars, sampleVars, resumeVars, buildingVars>>

SpecBatch == InitBatch /\ [][NextBatch]_vars

(***************************************************************************)
(* peregrine.py: the scheduler's logs and pick_up_where_left_off.          *)
(*                                                                         *)
(* A text file is the list of its lines.  The array task n of a submitted  *)
(* job array leaves its output in job.out-<n> (qsub -o .../job.out).       *)
(***************************************************************************)
OkLine == "Simulation time: 41.07 minutes"

TimeoutLine == "=>> PBS: job killed: walltime 10843 exceeded limit 10800"

NodeFailLine == "=>> PBS: job killed: node 12 requested job terminate"

\* mutant of LineHasTimeout: any kill by the scheduler matches
LineHasKill(line) == line \in {TimeoutLine, NodeFailLine}

\* re.search(r'PBS: job killed: walltime \d+ exceeded limit \d+', line)
LineHasTimeout(line) == line \in {TimeoutLine}

\* the re.search of line 241 over the whole contents
HasTimeoutSignature(logfile_contents) ==
    \E k \in 1..Len(logfile_contents) : LineHasTimeout(logfile_contents[k])

\* what an array task may leave in its log: a run to the end, a kill at the
\* walltime after or before any other output, a kill for another reason
LogContents == {<<OkLine>>, <<OkLine, TimeoutLine>>, <<TimeoutLine>>, <<OkLine, NodeFailLine>>}

MaxTaskRuns == 2

MaxPickups == 2

\* the scheduler runs task n of an accepted job array to its end (or kills
\* it) and writes job.out-<n>.  No log is written while a scan of
\* pick_up_where_left_off is under way: the scan reads a directory at rest.
TaskRun(n) ==
    /\ task_runs < MaxTaskRuns
    /\ pickup_pc # "scan"
    /\ \E k \in 1..Len(queued) : queued[k].kind = "array" /\ n \in ArrayTasks(queued[k].array_spec)
    /\ \E contents \in LogContents : job_out' = WriteFile(job_out, n, contents)
    /\ task_runs' = task_runs + 1
    /\ quiet' = FALSE
    /\ UNCHANGED <<job_out_bak, pickup_pc, listing, listed_out, jobs_to_restart,
                   pickup_n_sims, pickup_jobid, pickup_runs, rescan>>

\* the entries of os.listdir(output_dir) that one of the two patterns of
\* lines 235 and 248 matches: job.out-<n> and job<n>.json.  (job.out-<n>.bak
\* matches neither: the first pattern ends with $ after the digits.)
DirEntries ==
    {[kind |-> "job.out", n |-> n] : n \in DOMAIN job_out}
        \cup {[kind |-> "job.json", n |-> n] : n \in DOMAIN job_json}

\* mutant of SortAscending: the list is left in listing order
Unsorted(s) == s

\* jobs_to_restart.sort()
RECURSIVE SortAscending(_)
SortAscending(s) ==
    IF s = <<>> THEN <<>>
    ELSE LET m == CHOOSE x \in Range(s) : \A y \in Range(s) : x <= y
             k == CHOOSE j \in 1..Len(s) : s[j] = m
         IN <<m>> \o SortAscending(SubSeq(s, 1, k - 1) \o SubSeq(s, k + 1, Len(s)))

\* mutant of AppendBak: open(logfile_path + '.bak', 'w'), which empties the
\* archive before the write
OverwriteBak(dir, n, logfile_contents) == WriteFile(dir, n, <<"">> \o logfile_contents)

\* open(logfile_path + '.bak', 'a'); f.write('\n'); f.write(logfile_contents)
AppendBak(dir, n, logfile_contents) ==
    WriteFile(dir, n, (IF n \in DOMAIN dir THEN dir[n] ELSE <<>>) \o <<"">> \o logfile_contents)

\* lines 232-234: the locals and the directory listing
PickupStart ==
    /\ pickup_pc \in {"idle", "done", "raised"}
    /\ batch_pc \in {"done", "raised", "crashed"}
    /\ pickup_runs < MaxPickups
    /\ jobs_to_restart' = <<>>
    /\ pickup_n_sims' = 0
    /\ listing' = DirEntries
    /\ listed_out' = job_out
    /\ pickup_pc' = "scan"
    /\ pickup_runs' = pickup_runs + 1
    /\ rescan' = quiet
    /\ quiet' = TRUE
    /\ UNCHANGED <<logVars, pickup_jobid, schedVars>>

\* lines 237-246: the log of task array_id is read and, when it shows the
\* timeout, archived and removed
ScanJobOut(array_id) ==
    LET logfile_contents == job_out[array_id]
    IN IF HasTimeoutSignature(logfile_contents)
          THEN /\ jobs_to_restart' = Append(jobs_to_restart, array_id)
               /\ job_out_bak' = AppendBak(job_out_bak, array_id, logfile_contents)
               /\ job_out' = RemoveFile(job_out, array_id)
          ELSE UNCHANGED <<jobs_to_restart, job_out_bak, job_out>>

\* mutant of ScanJobJson: the count of the descriptor read last is kept
ScanJobJsonLast(n) ==
    LET job_d == job_json[n]
    IN pickup_n_sims' = Len(job_d.batch)

\* lines 250-252
ScanJobJson(n) ==
    LET job_d == job_json[n]
    IN pickup_n_sims' = Max(Len(job_d.batch), pickup_n_sims)

\* one iteration of the loop of lines 234-252; the file system chooses
\* the order of the entries
PickupScanEntry ==
    /\ pickup_pc = "scan"
    /\ \E entry \in listing :
          /\ listing' = listing \ {entry}
          /\ IF entry.kind = "job.out"
                THEN ScanJobOut(entry.n) /\ UNCHANGED pickup_n_sims
                ELSE ScanJobJson(entry.n) /\ UNCHANGED <<jobs_to_restart, job_out_bak, job_out>>
    /\ UNCHANGED <<task_runs, pickup_pc, listed_out, pickup_jobid, pickup_runs, quiet, rescan,
                   schedVars>>

\* lines 253-265: the sort, then _queue_jobs with the comma-joined list
PickupQueueJobs ==
    /\ pickup_pc = "scan"
    /\ listing = {}
    /\ LET sorted == SortAscending(jobs_to_restart)
       IN /\ jobs_to_restart' = sorted
          /\ \E accepted \in BOOLEAN :
                /\ QueueJobs(pickup_n_sims, ListSpec(sorted), accepted)
                /\ IF accepted
                      THEN pickup_jobid' = next_jobid /\ pickup_pc' = "queue_post"
                      ELSE UNCHANGED pickup_jobid /\ pickup_pc' = "raised"
    /\ UNCHANGED <<logVars, listing, listed_out, pickup_n_sims, pickup_runs, quiet, rescan>>

\* line 267
PickupQueuePost ==
    /\ pickup_pc = "queue_post"
    /\ \E accepted \in BOOLEAN : QueuePostProcessing(pickup_jobid, accepted)
    /\ pickup_pc' = "done"
    /\ UNCHANGED <<logVars, listing, listed_out, jobs_to_restart, pickup_n_sims,
                   pickup_jobid, pickup_runs, quiet, rescan>>

(***************************************************************************)
(* SpecResume: run_batch on a few workloads (no unit, one unit, one full   *)
(* job, two jobs), then the array tasks' logs and pick_up_where_left_off.  *)
(***************************************************************************)
ResumeDatapoints == {0, 1, MinSimsPerJob, MinSimsPerJob + 1}

InitResume ==
    /\ cfg \in [n_datapoints : ResumeDatapoints, n_upgrades : {0}, n_jobs : {DefaultNJobs}]
    /\ BatchStart
    /\ next_jobid = 1
    /\ OrderIdle
    /\ SampleIdle
    /\ ResumeIdle
    /\ BuildingIdle

NextResume ==
    \/ BuildWorkload /\ UNCHANGED <<orderVars, sampleVars, schedVars, resumeVars, buildingVars>>
    \/ PersistJob /\ UNCHANGED <<orderVars, sampleVars, schedVars, resumeVars, buildingVars>>
    \/ BatchQueueJobs /\ UNCHANGED <<orderVars, sampleVars, resumeVars, buildingVars>>
    \/ BatchQueuePost /\ UNCHANGED <<orderVars, sampleVars, resumeVars, buildingVars>>
    \/ BatchCrash /\ UNCHANGED <<orderVars, sampleVars, resumeVars, buildingVars>>
    \/ \E n \in 1..job_i : TaskRun(n) /\ UNCHANGED <<orderVars, sampleVars, batchVars, schedVars, buildingVars>>
    \/ PickupStart /\ UNCHANGED <<orderVars, sampleVars, batchVars, buildingVars>>
    \/ PickupScanEntry /\ UNCHANGED <<orderVars, sampleVars, batchVars, buildingVars>>
    \/ PickupQueueJobs /\ UNCHANGED <<orderVars, sampleVars, batchVars, buildingVars>>
    \/ PickupQueuePost /\ UNCHANGED <<orderVars, sampleVars, batchVars, buildingVars>>

SpecResume == InitResume /\ [][NextResume]_vars

(***************************************************************************)
(* peregrine.py: run_job_batch and run_building.                           *)
(*                                                                         *)
(* An array task runs run_job_batch on its descriptor; the scheduler may   *)
(* kill the task at its walltime, and a restart runs the same descriptor   *)
(* again.  A simulation directory is [exists, marker, made_by]: marker is  *)
(* the run/finished.job or run/failed.job the simulation left, made_by the *)
(* run of the task that created the directory.                             *)
(***************************************************************************)
\* 'bldg{:07d}up{:02d}'.format(i, 0 if upgrade_idx is None else upgrade_idx + 1)
SimId(unit) == <<unit[1], IF unit[2] = <<>> THEN 0 ELSE unit[2][1] + 1>>

\* a sim_dir that does not exist
NoDir == [exists |-> FALSE, marker |-> "none", made_by |-> 0]

\* mutant of HasMarker: only finished.job is looked for
HasFinishedMarker(dir) == dir.marker = "finished"

\* lines 296-299: run/finished.job or run/failed.job exists
HasMarker(dir) == dir.marker = "finished" \/ dir.marker = "failed"

\* shutil.rmtree(sim_dir)
Rmtree(dirs, sim_id) == [dirs EXCEPT ![sim_id] = NoDir]

\* the starts of the array task this model follows
MaxJobRuns == 3

\* run_job_batch, lines 269-285: the task starts, first or again after the
\* run before it ended or was killed, and hands every unit of the
\* descriptor to a run_building worker
RunJobBatch ==
    /\ job_run < MaxJobRuns
    /\ \A u \in DOMAIN bldg_pc : bldg_pc[u] \in {"returned", "raised", "killed"}
    /\ job_run' = job_run + 1
    /\ bldg_pc' = [u \in DOMAIN job_batch |-> "pending"]
    /\ found_dir' = [u \in DOMAIN job_batch |-> NoDir]
    /\ UNCHANGED <<job_batch, sim_dirs, n_executed>>

\* run_building, lines 291-301: skip the unit whose directory holds a
\* marker, remove a directory without one
RunBuildingCheck(u) ==
    /\ job_run >= 1
    /\ bldg_pc[u] = "pending"
    /\ LET sim_id == SimId(job_batch[u])
           sim_dir == sim_dirs[sim_id]
       IN /\ found_dir' = [found_dir EXCEPT ![u] = sim_dir]
          /\ IF sim_dir.exists
                THEN IF HasMarker(sim_dir)
                        THEN /\ bldg_pc' = [bldg_pc EXCEPT ![u] = "returned"]
                             /\ UNCHANGED sim_dirs
                        ELSE /\ sim_dirs' = Rmtree(sim_dirs, sim_id)
                             /\ bldg_pc' = [bldg_pc EXCEPT ![u] = "create"]
                ELSE /\ bldg_pc' = [bldg_pc EXCEPT ![u] = "create"]
                     /\ UNCHANGED sim_dirs
    /\ UNCHANGED <<job_batch, job_run, n_executed>>

\* lines 304-309: os.makedirs(sim_dir), which raises when the directory
\* exists, and in.osw
RunBuildingCreate(u) ==
    /\ bldg_pc[u] = "create"
    /\ LET sim_id == SimId(job_batch[u])
       IN IF sim_dirs[sim_id].exists
             THEN /\ bldg_pc' = [bldg_pc EXCEPT ![u] = "raised"]
                  /\ UNCHANGED sim_dirs
             ELSE /\ sim_dirs' = [sim_dirs EXCEPT ![sim_id] =
                                     [exists |-> TRUE, marker |-> "none", made_by |-> job_run]]
                  /\ bldg_pc' = [bldg_pc EXCEPT ![u] = "simulate"]
    /\ UNCHANGED <<job_batch, job_run, found_dir, n_executed>>

\* lines 318-363: the simulation in the container, which leaves
\* run/finished.job, run/failed.job or, when it breaks off, neither; its
\* exit status is swallowed (line 353).  cleanup_sim_dir leaves the markers.
RunBuildingSimulate(u) ==
    /\ bldg_pc[u] = "simulate"
    /\ LET sim_id == SimId(job_batch[u])
       IN \E marker \in {"finished", "failed", "none"} :
             sim_dirs' = [sim_dirs EXCEPT ![sim_id].marker = marker]
    /\ n_executed' = [n_executed EXCEPT ![u] = @ + 1]
    /\ bldg_pc' = [bldg_pc EXCEPT ![u] = "returned"]
    /\ UNCHANGED <<job_batch, job_run, found_dir>>

\* the scheduler kills the task at its walltime: every run_building that
\* has not returned stops where it is
JobKilled ==
    /\ job_run >= 1
    /\ \E u \in DOMAIN bldg_pc : bldg_pc[u] \in {"pending", "create", "simulate"}
    /\ bldg_pc' = [u \in DOMAIN bldg_pc |->
                      IF bldg_pc[u] \in {"pending", "create", "simulate"} THEN "killed"
                      ELSE bldg_pc[u]]
    /\ UNCHANGED <<job_batch, job_run, sim_dirs, found_dir, n_executed>>

(***************************************************************************)
(* SpecBuilding: one array task over a descriptor of one baseline unit,    *)
(* alone or with its first upgrade, started up to MaxJobRuns times.        *)
(***************************************************************************)
InitBuilding ==
    /\ job_batch \in {AllSims(1, 0), AllSims(1, 1)}
    /\ job_run = 0
    /\ sim_dirs = [sim_id \in {SimId(job_batch[u]) : u \in DOMAIN job_batch} |-> NoDir]
    /\ bldg_pc = <<>>
    /\ found_dir = <<>>
    /\ n_executed = [u \in DOMAIN job_batch |-> 0]
    /\ OrderIdle
    /\ SampleIdle
    /\ BatchIdle
    /\ ResumeIdle

NextBuilding ==
    \/ RunJobBatch /\ UNCHANGED <<orderVars, sampleVars, batchVars, schedVars, resumeVars>>
    \/ \E u \in DOMAIN bldg_pc :
          RunBuildingCheck(u) /\ UNCHANGED <<orderVars, sampleVars, batchVars, schedVars, resumeVars>>
    \/ \E u \in DOMAIN bldg_pc :
          RunBuildingCreate(u) /\ UNCHANGED <<orderVars, sampleVars, batchVars, schedVars, resumeVars>>
    \/ \E u \in DOMAIN bldg_pc :
          RunBuildingSimulate(u) /\ UNCHANGED <<orderVars, sampleVars, batchVars, schedVars, resumeVars>>
    \/ JobKilled /\ UNCHANGED <<orderVars, sampleVars, batchVars, schedVars, resumeVars>>

SpecBuilding == InitBuilding /\ [][NextBuilding]_vars

(***************************************************************************)
(*                              THE CLAIMS                                 *)
(***************************************************************************)

(***************************************************************************)
(* Vocabulary of the claims about the dependency mapping.  The mapping is  *)
(* read off the tables, as line 237 reads it.                              *)
(***************************************************************************)
MappingKeys == Range(tsv_keys)

MappingDeps(attr) == Range(DependencyNames(tsv_hash[attr]))

\* every named dependency is itself a key
MappingClosed == \A attr \in MappingKeys : MappingDeps(attr) \subseteq MappingKeys

\* the attributes reachable from the set S in at most n dependency steps
RECURSIVE ReachableDeps(_, _)
ReachableDeps(S, n) ==
    IF n = 0 THEN S
    ELSE ReachableDeps(S \cup UNION {MappingDeps(b) : b \in S \cap MappingKeys}, n - 1)

\* some attribute depends, directly or through others, on itself
MappingCyclic ==
    \E attr \in MappingKeys : attr \in ReachableDeps(MappingDeps(attr), Cardinality(MappingKeys))

\* every attribute stands strictly after each of its dependencies
OrderRespectsDependencies ==
    \A attr \in MappingKeys : \A dep \in MappingDeps(attr) :
        /\ InSeq(attr, attr_order)
        /\ InSeq(dep, attr_order)
        /\ IndexOf(attr, attr_order) > IndexOf(dep, attr_order)

\* C1 (as claimed): for every acyclic mapping whose dependencies are all
\* keys, the order _com_order_tsvs returns puts every attribute strictly
\* after each attribute of its dependency list.
C1_OrderAfterDependencies ==
    (order_pc = "returned" /\ MappingClosed /\ ~MappingCyclic) => OrderRespectsDependencies

\* C2 (as claimed): for a mapping that is cyclic or names a dependency that
\* is no key, _com_order_tsvs never returns an order, and neither the output
\* table nor any worker exists.
C2_MalformedMappingRaises ==
    (MappingCyclic \/ ~MappingClosed) =>
        /\ order_pc # "returned"
        /\ ~csv.exists
        /\ run_pc \notin {"parallel", "returned"}

(***************************************************************************)
(* Vocabulary of the claims about run_batch.                               *)
(***************************************************************************)
\* {(i, none) : 1 <= i <= n} union {(i, u) : 1 <= i <= n, 0 <= u < U}
Workload ==
    {<<i, <<>>>> : i \in 1..cfg.n_datapoints}
        \cup {<<i, <<u>>>> : i \in 1..cfg.n_datapoints, u \in 0..(cfg.n_upgrades - 1)}

TotalUnits == cfg.n_datapoints * (cfg.n_upgrades + 1)

\* the loop of run_batch has ended: every descriptor it writes is written
PartitionDone == batch_pc \in {"queue_jobs", "queue_post", "done", "raised"}

RECURSIVE SumOver(_, _)
SumOver(f, S) ==
    IF S = {} THEN 0
    ELSE LET n == CHOOSE x \in S : TRUE IN f[n] + SumOver(f, S \ {n})

\* the number of units written over all descriptors
UnitsWritten == SumOver([n \in DOMAIN job_json |-> Len(job_json[n].batch)], DOMAIN job_json)

\* the set of units written over all descriptors
UnitSetWritten == UNION {Range(job_json[n].batch) : n \in DOMAIN job_json}

\* C3: when the loop of run_batch has ended, the units of all descriptors
\* are exactly the workload, each unit written exactly once: the set of
\* units written is the workload and as many units were written as the
\* workload has, so none is written twice.
C3_DescriptorsCoverWorkloadOnce ==
    PartitionDone => (UnitSetWritten = Workload /\ UnitsWritten = Cardinality(Workload))

\* C3 witness: three or more descriptors with upgrades, written from a
\* shuffle that moved the first unit
C3_Witness ==
    /\ batch_pc = "queue_jobs"
    /\ cfg.n_upgrades >= 1
    /\ Cardinality(DOMAIN job_json) >= 3
    /\ job_json[1].batch[1] # <<1, <<>>>>

JobSizes == [n \in DOMAIN job_json |-> Len(job_json[n].batch)]

\* C4: units_per_job is the least integer that is at least 48 and at least
\* total/requested; the K = ceil(total/units_per_job) descriptors 1..K hold
\* units_per_job units each, but for the last, which holds 1..units_per_job;
\* 100 baseline units with 200 requested jobs give sizes 48, 48, 4.
C4_JobSizes ==
    PartitionDone =>
        LET upj == n_sims_per_job
            K == Cardinality(DOMAIN job_json)
        IN /\ upj >= MinSimsPerJob
           /\ upj * cfg.n_jobs >= TotalUnits
           /\ upj = MinSimsPerJob \/ (upj - 1) * cfg.n_jobs < TotalUnits
           /\ (K - 1) * upj < TotalUnits
           /\ TotalUnits <= K * upj
           /\ DOMAIN job_json = 1..K
           /\ \A n \in 1..(K - 1) : JobSizes[n] = upj
           /\ K >= 1 => (1 <= JobSizes[K] /\ JobSizes[K] <= upj)
           /\ (cfg.n_datapoints = 100 /\ cfg.n_upgrades = 0 /\ cfg.n_jobs = 200)
                 => JobSizes = <<48, 48, 4>>

\* C4 witness: the 100-unit example, partitioned
C4_Witness ==
    /\ batch_pc = "queue_jobs"
    /\ cfg = [n_datapoints |-> 100, n_upgrades |-> 0, n_jobs |-> 200]
    /\ JobSizes = <<48, 48, 4>>

ArraySubmissions == {k \in 1..Len(queued) : queued[k].kind = "array"}

PostSubmissions == {k \in 1..Len(queued) : queued[k].kind = "post"}

\* C5: the array is submitted only once every descriptor is on disk; the
\* post-processing job is submitted after the array and names the id the
\* array submission returned as its dependency; a crash after the
\* partitioning leaves every descriptor on disk.
C5_PersistThenArrayThenPost ==
    /\ ArraySubmissions # {} => UnitsWritten = TotalUnits
    /\ \A p \in PostSubmissions :
          \E a \in ArraySubmissions : a < p /\ queued[p].after = queued[a].id
    /\ (batch_pc = "crashed" /\ job_i >= 1 /\ sims_pos = Len(all_sims))
          => (UnitsWritten = TotalUnits /\ UnitSetWritten = Workload)

\* C5 witness: both submissions made for a workload of several jobs
C5_Witness ==
    /\ batch_pc = "done"
    /\ Cardinality(DOMAIN job_json) >= 2
    /\ ArraySubmissions # {}
    /\ PostSubmissions # {}

\* C6: the array run_batch submits is the range 1-K, K the number of
\* descriptors persisted, which are numbered 1..K and each carry their own
\* number as job_num; so for an empty workload, with no descriptor.
C6_ArraySpansDescriptors ==
    \A a \in ArraySubmissions :
        queued[a].array_spec.form = "range" =>
            LET K == Cardinality(DOMAIN job_json)
            IN /\ queued[a].array_spec.first = 1
               /\ queued[a].array_spec.last = K
               /\ DOMAIN job_json = 1..K
               /\ \A n \in DOMAIN job_json : job_json[n].job_num = n

\* C6 witness: an array submitted for several descriptors
C6_Witness ==
    /\ batch_pc = "queue_post"
    /\ Cardinality(DOMAIN job_json) >= 2
    /\ \E a \in ArraySubmissions : queued[a].array_spec.form = "range"

(***************************************************************************)
(* Vocabulary of the claims about pick_up_where_left_off.                  *)
(***************************************************************************)
\* the scan and the sort of pick_up_where_left_off have ended
ScanDone == pickup_pc \in {"queue_post", "raised", "done"}

\* the tasks whose log, as the scan found it, shows the walltime kill
TimedOutWhenListed ==
    {n \in DOMAIN listed_out : \E k \in 1..Len(listed_out[n]) : listed_out[n][k] = TimeoutLine}

StrictlyAscending(s) == \A j, k \in 1..Len(s) : j < k => s[j] < s[k]

\* C7: the restart list is strictly ascending and holds exactly the tasks
\* whose job.out-<n> showed the timeout signature when the directory was
\* scanned; it is what the restart submission carries as its task list.
C7_RestartSetIsTimedOutLogs ==
    ScanDone =>
        /\ StrictlyAscending(jobs_to_restart)
        /\ Range(jobs_to_restart) = TimedOutWhenListed
        /\ pickup_pc = "queue_post" =>
              /\ queued[Len(queued)].kind = "array"
              /\ queued[Len(queued)].array_spec = ListSpec(jobs_to_restart)

\* C7 witness: two tasks resubmitted
C7_Witness ==
    /\ pickup_pc = "queue_post"
    /\ jobs_to_restart = <<1, 2>>

\* C8: a scan of a directory in which nothing was written since the scan
\* before it finds nothing to restart.
C8_SecondResumeIsEmpty == rescan => jobs_to_restart = <<>>

\* C8 witness: a second scan, ended, after a first that archived a log
C8_Witness ==
    /\ rescan
    /\ pickup_pc = "queue_post"
    /\ DOMAIN job_out_bak # {}

\* C9 (as claimed): the restart submission carries the units-per-job value
\* that run_batch computed and gave its own submission.  It is stated for
\* the restarts that resubmit at least one task of a finished run_batch.
C9_ResumeRecoversUnitsPerJob ==
    \A a \in ArraySubmissions :
        (batch_pc = "done" /\ queued[a].array_spec.form = "list"
                           /\ queued[a].array_spec.ids # <<>>)
            => queued[a].n_sims_per_job = n_sims_per_job

(***************************************************************************)
(* The claims about the workers of run_sampling.                           *)
(***************************************************************************)
\* the workers between lock.acquire() and lock.release()
InCritical ==
    {k \in DOMAIN task_pc : task_pc[k] \in {"acquired", "opened", "written", "closed", "failing"}}

\* C10: at most one worker is between acquiring and releasing the lock,
\* and it is only such a worker that has the output table open.
C10_AppendsMutuallyExclusive ==
    /\ Cardinality(InCritical) <= 1
    /\ InCritical # {} => lock

\* C10 witness: one worker has the table open while another, its row
\* built, waits for the lock
C10_Witness ==
    \E j, k \in DOMAIN task_pc : task_pc[j] = "written" /\ task_pc[k] = "resolved"

(***************************************************************************)
(* The claims about the output table of run_sampling.                      *)
(***************************************************************************)
\* the lines of buildstock.csv after the header
DataLines == IF csv.lines = <<>> THEN <<>> ELSE Tail(csv.lines)

\* the workers that built their row and appended it
WorkersDone == {k \in DOMAIN task_pc : task_pc[k] = "done"}

\* how many data lines start with the number of sample index k
LinesOfIndex(k) ==
    Cardinality({j \in 1..Len(DataLines) : DataLines[j][1] = IntStr(k + 1)})

\* C11: when run_sampling returns, the table holds the row of every worker
\* that resolved its sample, once, under the number k + 1, and nothing else:
\* no line for a rejected index, no line twice, whatever the order in which
\* the workers appended.
C11_NoRowLostOrDuplicated ==
    run_pc = "returned" =>
        /\ \A k \in WorkersDone :
              /\ LinesOfIndex(k) = 1
              /\ \E j \in 1..Len(DataLines) : DataLines[j] = csv_row[k]
        /\ \A k \in DOMAIN task_pc \ WorkersDone :
              task_pc[k] = "rejected" /\ LinesOfIndex(k) = 0
        /\ Len(DataLines) = Cardinality(WorkersDone)

\* C11 witness: a run that returned with the row of the second sample
\* appended before the row of the first
C11_Witness ==
    /\ run_pc = "returned"
    /\ Len(DataLines) = 2
    /\ DataLines[1][1] = "2"
    /\ DataLines[2][1] = "1"

\* text.split(','): the fields of a line, each the sequence of its pieces
RECURSIVE SplitAtCommas(_)
SplitAtCommas(text) ==
    IF text = <<>> THEN << <<>> >>
    ELSE LET rest == SplitAtCommas(Tail(text))
         IN IF Head(text) = "," THEN << <<>> >> \o rest
            ELSE << <<Head(text)>> \o rest[1] >> \o Tail(rest)

\* the fields of a line that ends with its "\n"
Fields(line) == SplitAtCommas(SubSeq(line, 1, Len(line) - 1))

\* the option names of an attribute's table
OptionSet(attr) ==
    {tsv_hash[attr].cols[c].name :
        c \in {c \in 1..Len(tsv_hash[attr].cols) : tsv_hash[attr].cols[c].kind = "Option"}}

\* a line is closed by the only "\n" it holds
OneLine(line) ==
    /\ line # <<>>
    /\ \A j \in 1..Len(line) : (line[j] = "\n") <=> (j = Len(line))

\* C12: the table starts with the header, Building followed by the names of
\* attr_order; every later line has Len(attr_order) + 1 fields, the number
\* k + 1 of a sample index k and then, for each attribute in the order of
\* the header, an option of that attribute.
C12_HeaderThenRowsOfOptions ==
    csv.exists =>
        /\ csv.lines # <<>>
        /\ OneLine(csv.lines[1])
        /\ Fields(csv.lines[1]) = << <<"Building">> >> \o [d \in 1..Len(attr_order) |-> <<attr_order[d]>>]
        /\ \A j \in 1..Len(DataLines) :
              /\ OneLine(DataLines[j])
              /\ LET f == Fields(DataLines[j])
                 IN /\ Len(f) = Len(attr_order) + 1
                    /\ \E k \in DOMAIN task_pc : f[1] = <<IntStr(k + 1)>>
                    /\ \A d \in 1..Len(attr_order) :
                          \E o \in OptionSet(attr_order[d]) : f[d + 1] = <<o>>

\* C12 witness: a table of two attributes with a data row under the header
C12_Witness ==
    /\ csv.exists
    /\ Len(attr_order) = 2
    /\ Len(DataLines) >= 1

(***************************************************************************)
(* The claims about the outcomes of _com_execute_sample.                   *)
(***************************************************************************)
\* the worker of sample index k raised while resolving its sample, lines
\* 276-297: it ended with an error and never built a row
ResolutionRaised(k) == task_pc[k] = "raised" /\ csv_row[k] = <<>>

\* the values the rows of an attribute's table hold for a dependency
ContextValues(attr, dep) ==
    {tsv_hash[attr].rows[r][DepColIndex(tsv_hash[attr], dep)] :
        r \in 1..Len(tsv_hash[attr].rows)}

\* some table has no row for an option its dependency can take
SomeContextAbsent ==
    \E attr \in MappingKeys : \E dep \in MappingDeps(attr) :
        \E o \in OptionSet(dep) : o \notin ContextValues(attr, dep)

\* C13 (as claimed): over tables whose mapping is closed and acyclic and of
\* which one lacks the row of a dependency context, no worker raises while
\* resolving its sample, and a rejected sample has no line in the table.
C13_RejectionIsNotFatal ==
    (MappingClosed /\ ~MappingCyclic /\ SomeContextAbsent) =>
        \A k \in DOMAIN task_pc :
            /\ ~ResolutionRaised(k)
            /\ task_pc[k] = "rejected" => LinesOfIndex(k) = 0

\* no table has a dependency column and every table has a row, so that
\* every attribute reaches the tests of lines 287 and 291 with its table as
\* it was read
PlainTables ==
    \A attr \in MappingKeys : MappingDeps(attr) = {} /\ Len(tsv_hash[attr].rows) >= 1

\* some table holds its (empty) dependency context in more than one row
DuplicatedContextRow == \E attr \in MappingKeys : Len(tsv_hash[attr].rows) > 1

RECURSIVE CumWeight(_, _)
CumWeight(weights, j) == IF j = 0 THEN 0 ELSE weights[j] + CumWeight(weights, j - 1)

\* every table is one row of option weights that sum to 1
UnitRowTables ==
    \A attr \in MappingKeys :
        /\ MappingDeps(attr) = {}
        /\ Len(tsv_hash[attr].rows) = 1
        /\ CumWeight(tsv_hash[attr].rows[1], Len(tsv_hash[attr].rows[1])) = UnitCoord

\* the position of the first option of attr, in column order, whose
\* cumulative weight is strictly above the coordinate; 0 if there is none
FirstExceeding(attr, coordinate) ==
    LET weights == tsv_hash[attr].rows[1]
        above == {j \in 1..Len(weights) : CumWeight(weights, j) > coordinate}
    IN IF above = {} THEN 0 ELSE CHOOSE j \in above : \A i \in above : j <= i

\* C15: no coordinate handed to the workers is 1 or more; over tables of
\* one row each, with weights that sum to 1, every worker finds an option
\* for every attribute, and the option its row holds for an attribute is the
\* first in column order whose cumulative weight strictly exceeds the
\* sample's coordinate for that attribute, an option of that attribute.
C15_FirstOptionAboveCoordinate ==
    /\ \A d \in DOMAIN sample_matrix : \A k \in DOMAIN sample_matrix[d] :
          sample_matrix[d][k] >= 0 /\ sample_matrix[d][k] < UnitCoord
    /\ UnitRowTables =>
          \A k \in DOMAIN task_pc :
              task_pc[k] # "pending" =>
                  /\ csv_row[k] # <<>>
                  /\ LET fields == Fields(csv_row[k])
                     IN \A d \in 1..Len(attr_order) :
                           LET j == FirstExceeding(attr_order[d], sample_matrix[d][k])
                           IN /\ j >= 1
                              /\ fields[d + 1] = <<tsv_hash[attr_order[d]].cols[j].name>>
                              /\ tsv_hash[attr_order[d]].cols[j].name \in OptionSet(attr_order[d])

\* C15 witness: a row built from a coordinate that lies on a cumulative
\* weight (0.5 on the weights 0.5, 0.5 of A, which picks y) and from the
\* coordinate that was clamped below 1
C15_Witness ==
    /\ UnitRowTables
    /\ attr_order = <<"A", "B">>
    /\ \E k \in DOMAIN task_pc :
          /\ csv_row[k] # <<>>
          /\ sample_matrix[1][k] = 500000
          /\ sample_matrix[2][k] = ClampedCoord
          /\ Fields(csv_row[k])[2] = <<"y">>
          /\ Fields(csv_row[k])[3] = <<"q">>

\* the tables of the end-to-end example: A without dependency, options x
\* and y of weight 0.5 each; B on A, one row for each value of A
EndToEndTables == tsv_hash = [A |-> TableA, B |-> TableBonA]

\* the field a row holds for an attribute
FieldOf(line, attr) == Fields(line)[IndexOf(attr, attr_order) + 1]

\* C16 (as claimed): over the end-to-end tables no sample is rejected and no
\* worker raises while resolving; every worker builds a row whose A is an
\* option of A and whose B is an option that the B row of that A gives a
\* positive weight (only p when A is x); the run that returned holds a row
\* for every sample index.
C16_EndToEndRows ==
    EndToEndTables =>
        /\ \A k \in DOMAIN task_pc :
              task_pc[k] # "pending" =>
                  /\ task_pc[k] # "rejected"
                  /\ ~ResolutionRaised(k)
                  /\ csv_row[k] # <<>>
                  /\ FieldOf(csv_row[k], "A") \in {<<"x">>, <<"y">>}
                  /\ FieldOf(csv_row[k], "B") \in {<<"p">>, <<"q">>}
                  /\ FieldOf(csv_row[k], "A") = <<"x">> => FieldOf(csv_row[k], "B") = <<"p">>
        /\ run_pc = "returned" => \A k \in DOMAIN task_pc : LinesOfIndex(k) = 1

\* what the tables, their order and the point set determine for sample k
Determined(k) == ExecuteSample(tsv_hash, dependency_hash, attr_order, sample_matrix, k)

\* the sample indices that the inputs determine to give a row
DeterminedAccepted == {k \in DOMAIN task_pc : Determined(k).outcome = "row"}

\* C17: in every interleaving, what a worker ends with is what the tables,
\* the attribute order and the point set determine for its index: it is
\* rejected exactly when they determine a rejection, and the row it builds
\* is the determined one; the table of a run that returned holds exactly
\* the determined rows, in some order.
C17_RowsDeterminedByInputs ==
    /\ \A k \in DOMAIN task_pc :
          task_pc[k] # "pending" =>
              LET determined == Determined(k)
              IN /\ (task_pc[k] = "rejected") <=> (determined.outcome = "rejected")
                 /\ (csv_row[k] # <<>>) <=> (determined.outcome = "row")
                 /\ determined.outcome = "row" =>
                       csv_row[k] = CsvRow(k, determined.result_vector)
    /\ run_pc = "returned" =>
          /\ Range(DataLines) = {CsvRow(k, Determined(k).result_vector) : k \in DeterminedAccepted}
          /\ {k \in DOMAIN task_pc : task_pc[k] = "rejected"} = DOMAIN task_pc \ DeterminedAccepted

\* C17 witness: a run over one attribute that returned with its two
\* determined rows, different ones, appended in the reverse order
C17_Witness ==
    /\ run_pc = "returned"
    /\ Len(attr_order) = 1
    /\ Len(DataLines) = 2
    /\ DataLines[1] = CsvRow(1, Determined(1).result_vector)
    /\ DataLines[2] = CsvRow(0, Determined(0).result_vector)
    /\ Determined(0).result_vector # Determined(1).result_vector

\* the worker of sample k gets as far as the attribute at position d of
\* attr_order: the attributes before it were all sampled
ReachesPosition(k, d) ==
    ExecuteSample(tsv_hash, dependency_hash, SubSeq(attr_order, 1, d - 1), sample_matrix,
                  k).outcome = "row"

\* the attributes whose entry of sample_dependency_hash is a chosen option
\* when the attribute at position d is filtered: those sampled before it
ChosenBefore(d) == {attr_order[e] : e \in 1..(d - 1)}

\* C20 (as claimed): over tables whose mapping is closed and acyclic,
\* whenever a worker filters the table of an attribute, every attribute of
\* its dependency list holds a chosen option in sample_dependency_hash.
C20_DependenciesChosenBeforeFilter ==
    \A k \in DOMAIN task_pc :
        (task_pc[k] # "pending" /\ MappingClosed /\ ~MappingCyclic) =>
            \A d \in 1..Len(attr_order) :
                ReachesPosition(k, d) =>
                    Range(dependency_hash[attr_order[d]]) \subseteq ChosenBefore(d)

(***************************************************************************)
(* The claim about failing submissions.                                    *)
(***************************************************************************)
\* C19 (as claimed): a run_batch whose array submission failed has raised
\* with nothing submitted, neither a second array nor a post-processing
\* job; and a failed post-processing submission is an error of run_batch
\* too, so that a run_batch over some workload that ended without error
\* has its post-processing job with the scheduler.
C19_SubmissionFailuresSurface ==
    /\ batch_pc = "raised" => (ArraySubmissions = {} /\ PostSubmissions = {})
    /\ Cardinality(ArraySubmissions) <= 1
    /\ (batch_pc = "done" /\ TotalUnits >= 1) => PostSubmissions # {}

(***************************************************************************)
(* The claim about run_building.                                           *)
(***************************************************************************)
\* the directory holds run/finished.job or run/failed.job
Marked(dir) == dir.marker \in {"finished", "failed"}

\* C18: a run_building that found its directory with a finished or failed
\* marker has returned without a simulation and the directory is as it
\* found it; one that found a directory without marker removed it, and a
\* simulation only ever runs in a directory created empty by the same run
\* of the task; so a directory that holds a marker is the work of the last
\* simulation executed for its unit, which is never executed again.
C18_RunBuildingIdempotent ==
    \A u \in DOMAIN bldg_pc :
        LET sim_dir == sim_dirs[SimId(job_batch[u])]
        IN /\ (bldg_pc[u] # "pending" /\ Marked(found_dir[u])) =>
                 /\ bldg_pc[u] = "returned"
                 /\ sim_dir = found_dir[u]
           /\ (bldg_pc[u] # "pending" /\ found_dir[u].exists /\ ~Marked(found_dir[u])) =>
                 /\ sim_dir # found_dir[u]
                 /\ sim_dir.exists => sim_dir.made_by = job_run
           /\ bldg_pc[u] = "create" => ~sim_dir.exists
           /\ bldg_pc[u] = "simulate" =>
                 sim_dir = [exists |-> TRUE, marker |-> "none", made_by |-> job_run]
           /\ bldg_pc[u] # "raised"
           /\ Marked(sim_dir) =>
                 /\ n_executed[u] >= 1
                 /\ n_executed[u] <= sim_dir.made_by

\* C18 witness: in its third run the task finds one unit with the failed
\* marker of the first run and skips it, and finds the other, which the
\* killed second run left without marker, removes it and simulates it anew
C18_Witness ==
    /\ job_run = 3
    /\ Len(job_batch) = 2
    /\ bldg_pc[1] = "returned"
    /\ found_dir[1] = [exists |-> TRUE, marker |-> "failed", made_by |-> 1]
    /\ n_executed[1] = 1
    /\ bldg_pc[2] = "simulate"
    /\ found_dir[2] = [exists |-> TRUE, marker |-> "none", made_by |-> 2]

(***************************************************************************)
(* The claims about what pick_up_where_left_off changes in output_dir.     *)
(***************************************************************************)
\* the contents of job.out-<n>.bak, empty when there is no such file
BakContents(dir, n) == IF n \in DOMAIN dir THEN dir[n] ELSE <<>>

\* the log shows the walltime kill
ShowsTimeout(contents) == \E k \in 1..Len(contents) : contents[k] = TimeoutLine

\* a step of pick_up_where_left_off: its position or its loop advances
PickupStep == pickup_pc' # pickup_pc \/ listing' # listing

\* job.out-<n> is left as it is, and so is its archive
LogKept(n) ==
    /\ n \in DOMAIN job_out'
    /\ job_out'[n] = job_out[n]
    /\ BakContents(job_out_bak', n) = BakContents(job_out_bak, n)

\* job.out-<n> is removed, its whole contents appended to job.out-<n>.bak
LogArchived(n) ==
    /\ n \notin DOMAIN job_out'
    /\ n \in DOMAIN job_out_bak'
    /\ job_out_bak'[n] = BakContents(job_out_bak, n) \o <<"">> \o job_out[n]

\* C21: a step of pick_up_where_left_off changes no job<n>.json, creates no
\* log, leaves every log without the timeout signature and its archive as
\* they are, and changes a log with the signature only by appending its
\* whole contents to its .bak file and removing it; when the scan ends no
\* log with the signature is left, and the descriptors are still the slices
\* of the workload that run_batch wrote.
C21_OnlyTimedOutLogsChange ==
    [][PickupStep =>
          /\ job_json' = job_json
          /\ DOMAIN job_out' \subseteq DOMAIN job_out
          /\ \A n \in DOMAIN job_out_bak' : n \in DOMAIN job_out \/ n \in DOMAIN job_out_bak
          /\ \A n \in DOMAIN job_out_bak \ DOMAIN job_out :
                n \in DOMAIN job_out_bak' /\ job_out_bak'[n] = job_out_bak[n]
          /\ \A n \in DOMAIN job_out :
                IF ShowsTimeout(job_out[n]) THEN LogKept(n) \/ LogArchived(n)
                ELSE LogKept(n)
          /\ (pickup_pc = "scan" /\ pickup_pc' # "scan") =>
                /\ \A n \in DOMAIN job_out' : ~ShowsTimeout(job_out'[n])
                /\ \A n \in Range(jobs_to_restart') :
                      n \in DOMAIN job_json' =>
                          job_json'[n].batch =
                              Islice(all_sims, (n - 1) * n_sims_per_job, n_sims_per_job)
    ]_vars

\* C21 witness: the scan has ended having archived the timed-out log of
\* task 1 and left the log of task 2, which shows no timeout, in place
C21_Witness ==
    /\ pickup_pc = "queue_post"
    /\ jobs_to_restart = <<1>>
    /\ 1 \in DOMAIN job_out_bak /\ 1 \notin DOMAIN job_out
    /\ 2 \in DOMAIN job_out /\ job_out[2] = <<OkLine, NodeFailLine>>
    /\ DOMAIN job_json = {1, 2}

(***************************************************************************)
(* The claims about the units-per-job value of a restart.                  *)
(***************************************************************************)
\* the unit counts of the descriptors in output_dir
DescriptorSizes == {Len(job_json[n].batch) : n \in DOMAIN job_json}

\* the largest of them, 0 when there is no descriptor
LargestDescriptor ==
    IF DescriptorSizes = {} THEN 0
    ELSE CHOOSE m \in DescriptorSizes : \A s \in DescriptorSizes : s <= m

\* the submissions of pick_up_where_left_off: those with a task list
RestartSubmissions == {a \in ArraySubmissions : queued[a].array_spec.form = "list"}

\* C22: whatever the order in which the directory was enumerated and
\* whichever tasks were marked, the scan ends with the largest unit count of
\* the descriptors present (0 without any), and that is the units-per-job
\* value every restart submission carries.
C22_RestartUnitsIsLargestDescriptor ==
    /\ ScanDone => pickup_n_sims = LargestDescriptor
    /\ \A a \in RestartSubmissions : queued[a].n_sims_per_job = LargestDescriptor

\* C22 witness: two descriptors of different sizes, the restart of the
\* smaller one's task submitted with the size of the larger
C22_Witness ==
    /\ pickup_pc = "queue_post"
    /\ DescriptorSizes = {1, MinSimsPerJob}
    /\ jobs_to_restart = <<2>>
    /\ Len(job_json[2].batch) = 1
    /\ queued[Len(queued)].n_sims_per_job = MinSimsPerJob

(***************************************************************************)
(* The claims about the termination and the result of _com_order_tsvs.     *)
(***************************************************************************)
OrderEnded == order_pc \in {"returned", "raised"}

\* C23: every pass of the while loop either ends _com_order_tsvs (it
\* returns or raises) or uses up one of the max_iterations passes, which
\* start at 5 and never go below 0; and on every mapping, cyclic or
\* malformed ones included, the method does end.
C23_OrderTerminates ==
    /\ [][order_pc = "loop" =>
             /\ max_iterations \in 0..MaxIterations
             /\ \/ OrderEnded'
                \/ /\ order_pc' = "loop"
                   /\ max_iterations' = max_iterations - 1
                   /\ max_iterations' >= 0]_vars
    /\ <>OrderEnded

\* C23 witness: the method has ended on a cyclic mapping
C23_Witness ==
    /\ OrderEnded
    /\ MappingCyclic
    /\ Len(tsv_keys) >= 2

\* the workers of run_sampling have been given their point set
PointSetDrawn == run_pc \in {"parallel", "returned"} \/ (run_pc = "raised" /\ order_pc = "returned")

\* C24: the order _com_order_tsvs returns holds every key of the mapping
\* exactly once and nothing else, and the point set drawn for it has one
\* row of NSamples coordinates per attribute table.
C24_OrderIsPermutationOfKeys ==
    /\ order_pc = "returned" =>
          /\ NoDup(attr_order)
          /\ Range(attr_order) = DOMAIN tsv_hash
          /\ Len(attr_order) = Cardinality(DOMAIN tsv_hash)
    /\ PointSetDrawn =>
          /\ DOMAIN sample_matrix = 1..Cardinality(DOMAIN tsv_hash)
          /\ \A d \in DOMAIN sample_matrix : DOMAIN sample_matrix[d] = 0..(NSamples - 1)

\* C24 witness: the order returned for the single table A, and the one for
\* B conditioned on A, with their point sets drawn
C24_Witness ==
    /\ order_pc = "returned"
    /\ run_pc = "parallel"
    /\ \/ attr_order = <<"A">> /\ Len(sample_matrix) = 1
       \/ attr_order = <<"B", "A">> /\ Len(sample_matrix) = 2

(***************************************************************************)
(* The claims about the release of the output table's lock.                *)
(***************************************************************************)
\* the worker is between lock.acquire() and lock.release()
HoldsLock(k) == task_pc[k] \in {"acquired", "opened", "written", "closed", "failing"}

\* the worker's call of _com_execute_sample has ended
WorkerEnded(k) == task_pc[k] \in {"done", "raised", "rejected"}

\* C25: the lock is held only while some worker is between its acquire and
\* its release, so no worker that ended left it held; and every worker that
\* has built its row and stands at lock.acquire() goes on to acquire the
\* lock and to end, with its row appended or with the error of open or
\* write: no worker waits for the lock for ever.
C25_LockNeverLeaked ==
    /\ [](lock => \E k \in DOMAIN task_pc : HoldsLock(k))
    /\ \A k \in 0..(NSamples - 1) :
          (k \in DOMAIN task_pc /\ task_pc[k] = "resolved")
              ~> (k \in DOMAIN task_pc /\ task_pc[k] \in {"done", "raised"})

\* C25 witness: a worker that had built its row has ended with the error
\* of open or write, another has appended its row, and the lock is free
C25_Witness ==
    /\ DOMAIN task_pc = 0..(NSamples - 1)
    /\ \E j, k \in DOMAIN task_pc :
          /\ task_pc[j] = "raised" /\ csv_row[j] # <<>>
          /\ task_pc[k] = "done"
    /\ ~lock

(***************************************************************************)
(* The claim about the archive job.out-<n>.bak over the resume cycles.     *)
(***************************************************************************)
\* s is the beginning of t
IsPrefix(s, t) == Len(s) <= Len(t) /\ SubSeq(t, 1, Len(s)) = s

\* C26: no step removes or shortens an archive or changes what it already
\* holds; an archive changes only by the timed-out log of its task, whole,
\* being put after everything archived before, and then that log is
\* removed.
C26_ArchiveOnlyGrows ==
    [][\A n \in DOMAIN job_out_bak :
          /\ n \in DOMAIN job_out_bak'
          /\ IsPrefix(job_out_bak[n], job_out_bak'[n])
          /\ job_out_bak'[n] # job_out_bak[n] =>
                /\ n \in DOMAIN job_out
                /\ ShowsTimeout(job_out[n])
                /\ job_out_bak'[n] = job_out_bak[n] \o <<"">> \o job_out[n]
                /\ n \notin DOMAIN job_out'
    ]_vars

\* C26 witness: task 1 timed out in two cycles with different logs, and its
\* archive holds both, the earlier one first
C26_Witness ==
    /\ pickup_runs = 2
    /\ 1 \in DOMAIN job_out_bak
    /\ job_out_bak[1] = <<"", OkLine, TimeoutLine, "", TimeoutLine>>

====
